---- MODULE Spec2Model ----
(***************************************************************************)
(* A model of the AICoach web client: the squat form heuristic             *)
(* (PoseDetection.analyzeSquat), the camera capture adapter (CameraFeed),  *)
(* the session coordinator (WorkoutSession / Index) and the voice bridge   *)
(* (VoiceCoach).                                                           *)
(*                                                                         *)
(* Landmark coordinates are normalised to [0,1] in the program; here they  *)
(* are exact integers in thousandths (400 is 0.4), and every comparison of *)
(* the program is carried out exactly on them.  Wall-clock time is in      *)
(* milliseconds.                                                           *)
(***************************************************************************)
EXTENDS Integers, Sequences, FiniteSets, TLC

VARIABLES
    \* --- form heuristic (PoseDetection.analyzeSquat) ---
    landmarks,      \* the argument of the call
    ret,            \* "none" before the call, "value" after a return, "TypeError" after a throw
    analysis,       \* the SquatAnalysis returned (meaningful when ret = "value")
    \* --- page (Index) ---
    isSessionActive, \* Index.isSessionActive, the isActive prop of the children
    \* --- capture adapter (CameraFeed) ---
    cam,            \* the component's state, refs, its requests and the streams
    \* --- pose inference bridge (PoseDetection) ---
    pose,           \* the component's refs, its frame loop and its requests
    \* --- session coordinator (WorkoutSession) ---
    now,            \* Date.now(), in milliseconds
    sess,           \* the component's state and its interval timer
    \* --- voice bridge (VoiceCoach) ---
    voice,          \* the component's state, the SDK status and its async calls
    \* --- credential endpoint (eleven-signed-url) ---
    ep,             \* the request being served, the provider call and the response
    \* --- page (Index) ---
    page            \* Index.squatAnalysis, as passed to VoiceCoach

heurVars == <<landmarks, ret, analysis>>

vars == <<landmarks, ret, analysis, isSessionActive, cam, pose, now, sess, voice, ep, page>>

-----------------------------------------------------------------------------
(* Form heuristic: src/src/components/PoseDetection.tsx, analyzeSquat        *)

\* The joints analyzeSquat reads.
LEFT_SHOULDER == 11
RIGHT_SHOULDER == 12
LEFT_HIP == 23
RIGHT_HIP == 24
LEFT_KNEE == 25
RIGHT_KNEE == 26
LEFT_ANKLE == 27
RIGHT_ANKLE == 28

Joints == {LEFT_SHOULDER, RIGHT_SHOULDER, LEFT_HIP, RIGHT_HIP,
           LEFT_KNEE, RIGHT_KNEE, LEFT_ANKLE, RIGHT_ANKLE}

\* 0.4, the assumed standing hip height, in thousandths.
standingHipHeight == 400

\* 0.05, the shoulder/hip offset beyond which the back leans, in thousandths.
leanOffset == 50

\* The depth above which the pose counts as squatting.
squattingDepth == 20

\* The depth bands of the feedback.
deeperBelow == 60
greatAbove == 90

Abs(v) == IF v < 0 THEN -v ELSE v

\* landmarks[i]: the entry of a JavaScript array, undefined past its length
\* (and on an undefined array the function returns before any read).
Present(lm, i) == lm.defined /\ i < lm.length

\* Math.max(0, Math.min(100, n/d * 100)) on IEEE numbers, for integers n, d:
\* x/0 is +Infinity or -Infinity by the sign of x, 0/0 is NaN, and both
\* Math.min and Math.max return NaN when an argument is NaN.  A finite depth
\* is the exact fraction num/den with den > 0.
ClampDepth(n, d) ==
    IF d = 0
    THEN IF n = 0 THEN [nan |-> TRUE, num |-> 0, den |-> 1]
         ELSE IF n > 0 THEN [nan |-> FALSE, num |-> 100, den |-> 1]
         ELSE [nan |-> FALSE, num |-> 0, den |-> 1]
    ELSE LET sn == IF d < 0 THEN -n ELSE n
             sd == Abs(d)
         IN  IF sn * 100 < 0 THEN [nan |-> FALSE, num |-> 0, den |-> 1]
             ELSE IF sn * 100 > 100 * sd THEN [nan |-> FALSE, num |-> 100, den |-> 1]
             ELSE [nan |-> FALSE, num |-> sn * 100, den |-> sd]

\* Comparisons with a depth; every comparison with NaN is false.
DepthGT(dp, k) == ~dp.nan /\ dp.num > k * dp.den
DepthLT(dp, k) == ~dp.nan /\ dp.num < k * dp.den

\* squatDepth: hipHeight and kneeHeight are the averages (l.y + r.y) / 2; the
\* quotient of the two differences is taken on the doubled values.
SquatDepth(lm) ==
    LET hipHeight2  == lm.pt[LEFT_HIP].y + lm.pt[RIGHT_HIP].y
        kneeHeight2 == lm.pt[LEFT_KNEE].y + lm.pt[RIGHT_KNEE].y
    IN  ClampDepth(2 * standingHipHeight - hipHeight2,
                   2 * standingHipHeight - kneeHeight2)

\* KneeAlignment with the lower boundary taken inclusively (<= for <).
KneeAlignmentInclusive(lm) ==
    LET hipWidth  == Abs(lm.pt[LEFT_HIP].x - lm.pt[RIGHT_HIP].x)
        kneeWidth == Abs(lm.pt[LEFT_KNEE].x - lm.pt[RIGHT_KNEE].x)
    IN  IF kneeWidth * 10 <= hipWidth * 8 THEN "knees-in"
        ELSE IF kneeWidth * 10 > hipWidth * 13 THEN "knees-out"
        ELSE "good"

\* kneeWidth < hipWidth * 0.8, else kneeWidth > hipWidth * 1.3.
KneeAlignment(lm) ==
    LET hipWidth  == Abs(lm.pt[LEFT_HIP].x - lm.pt[RIGHT_HIP].x)
        kneeWidth == Abs(lm.pt[LEFT_KNEE].x - lm.pt[RIGHT_KNEE].x)
    IN  IF kneeWidth * 10 < hipWidth * 8 THEN "knees-in"
        ELSE IF kneeWidth * 10 > hipWidth * 13 THEN "knees-out"
        ELSE "good"

\* BackAlignment with the backward boundary taken inclusively (>= for >).
BackAlignmentInclusive(lm) ==
    LET shoulderCenter2 == lm.pt[LEFT_SHOULDER].x + lm.pt[RIGHT_SHOULDER].x
        hipCenter2      == lm.pt[LEFT_HIP].x + lm.pt[RIGHT_HIP].x
    IN  IF shoulderCenter2 < hipCenter2 - 2 * leanOffset THEN "forward-lean"
        ELSE IF shoulderCenter2 >= hipCenter2 + 2 * leanOffset THEN "backward-lean"
        ELSE "good"

\* shoulderCenter < hipCenter - 0.05, else shoulderCenter > hipCenter + 0.05,
\* the centers being the averages (l.x + r.x) / 2, compared doubled.
BackAlignment(lm) ==
    LET shoulderCenter2 == lm.pt[LEFT_SHOULDER].x + lm.pt[RIGHT_SHOULDER].x
        hipCenter2      == lm.pt[LEFT_HIP].x + lm.pt[RIGHT_HIP].x
    IN  IF shoulderCenter2 < hipCenter2 - 2 * leanOffset THEN "forward-lean"
        ELSE IF shoulderCenter2 > hipCenter2 + 2 * leanOffset THEN "backward-lean"
        ELSE "good"

KneeFeedback(k) ==
    IF k = "knees-in" THEN <<"Keep your knees tracking over your toes">>
    ELSE IF k = "knees-out" THEN <<"Bring your knees slightly closer together">>
    ELSE <<>>

BackFeedback(b) ==
    IF b = "forward-lean" THEN <<"Keep your chest up and back straight">>
    ELSE IF b = "backward-lean" THEN <<"Lean slightly forward to maintain balance">>
    ELSE <<>>

\* DepthFeedback with the lower band taken inclusively (<= 60 for < 60).
DepthFeedbackDeeperInclusive(dp) ==
    IF DepthGT(dp, squattingDepth)
    THEN IF ~DepthGT(dp, deeperBelow)
         THEN <<"Go deeper - aim to get your hips below your knees">>
         ELSE IF DepthGT(dp, greatAbove) THEN <<"Great depth! Focus on control">>
         ELSE <<"Perfect squat depth!">>
    ELSE <<>>

\* The depth message (lines 116-124).
DepthFeedback(dp) ==
    IF DepthGT(dp, squattingDepth)
    THEN IF DepthLT(dp, deeperBelow)
         THEN <<"Go deeper - aim to get your hips below your knees">>
         ELSE IF DepthGT(dp, greatAbove) THEN <<"Great depth! Focus on control">>
         ELSE <<"Perfect squat depth!">>
    ELSE <<>>

\* The result on undefined or empty input.
NeutralAnalysis ==
    [isSquatting |-> FALSE, depth |-> [nan |-> FALSE, num |-> 0, den |-> 1],
     kneeAlignment |-> "good", backAlignment |-> "good", feedback |-> <<>>]

\* analyzeSquat: [threw, value].  Reading .y or .x of an undefined entry
\* throws a TypeError; nothing is written before that.
analyzeSquat(lm) ==
    IF ~lm.defined \/ lm.length = 0
    THEN [threw |-> FALSE, value |-> NeutralAnalysis]
    ELSE IF \E j \in Joints : ~Present(lm, j)
    THEN [threw |-> TRUE, value |-> NeutralAnalysis]
    ELSE LET squatDepth == SquatDepth(lm)
             knee == KneeAlignment(lm)
             back == BackAlignment(lm)
         IN  [threw |-> FALSE,
              value |-> [isSquatting |-> DepthGT(squatDepth, squattingDepth),
                         depth |-> squatDepth,
                         kneeAlignment |-> knee,
                         backAlignment |-> back,
                         feedback |-> KneeFeedback(knee) \o BackFeedback(back)
                                      \o DepthFeedback(squatDepth)]]

-----------------------------------------------------------------------------
(* The inputs the heuristic is applied to                                    *)

\* Array lengths: 0 is the empty list; a length below 29 lacks at least one of
\* the joints read (the highest index read is RIGHT_ANKLE).
Lengths == {0, 1, 12, 24, 26, 28, 29, 33}

\* Coordinates in thousandths.  The sets hold the values on each side of every
\* threshold of the function: a knee/hip width ratio of 0.79, 0.8, 0.81, 1.29,
\* 1.3, 1.31; a shoulder/hip offset of 0.049, 0.05, 0.051 to either side; hip
\* heights above, at and below the standing baseline and knee heights at it.
ShoulderXs == {398, 400, 402, 500, 598, 600, 602}
HipXs == {450, 550}
KneeXs == {369, 450, 529, 530, 531, 550, 579, 580, 581}
HipYs == {0, 300, 400, 480, 484, 640, 644, 760, 764, 800, 1000}
KneeYs == {200, 400, 800}

Pt(px, py) == [x |-> px, y |-> py]

\* A landmark list of length n whose eight joints read by analyzeSquat have the
\* given coordinates (where the list is long enough to hold them).
MkLandmarks(n, sx, hx, kx, hy, ky) ==
    [defined |-> TRUE, length |-> n,
     pt |-> [j \in Joints |->
               CASE j = LEFT_SHOULDER  -> Pt(sx, 200)
                 [] j = RIGHT_SHOULDER -> Pt(500, 200)
                 [] j = LEFT_HIP       -> Pt(hx, hy)
                 [] j = RIGHT_HIP      -> Pt(550, 400)
                 [] j = LEFT_KNEE      -> Pt(450, ky)
                 [] j = RIGHT_KNEE     -> Pt(kx, 400)
                 [] j = LEFT_ANKLE     -> Pt(450, 900)
                 [] j = RIGHT_ANKLE    -> Pt(550, 900)]]

UndefinedLandmarks == [MkLandmarks(0, 500, 450, 550, 400, 800) EXCEPT !.defined = FALSE]

LandmarkInputs ==
    {UndefinedLandmarks} \cup
    { MkLandmarks(n, sx, hx, kx, hy, ky) :
        n \in Lengths, sx \in ShoulderXs, hx \in HipXs, kx \in KneeXs,
        hy \in HipYs, ky \in KneeYs }

InitHeur ==
    /\ landmarks = UndefinedLandmarks
    /\ ret = "none"
    /\ analysis = NeutralAnalysis

\* A call analyzeSquat(lm).
Analyze ==
    /\ ret = "none"
    /\ LET r == analyzeSquat(landmarks)
       IN  /\ ret' = IF r.threw THEN "TypeError" ELSE "value"
           /\ analysis' = r.value
    /\ UNCHANGED <<landmarks, isSessionActive, cam, pose, now, sess, voice, ep, page>>

-----------------------------------------------------------------------------
(* Capture adapter: CameraFeed.  Three versions of the component are in the  *)
(* sources: "first" (unnamed/part_000, lines 11-134), "streamRef"            *)
(* (unnamed/part_000, lines 145-282) and "second" (unnamed/part_001).        *)

Variants == {"first", "streamRef", "second"}

\* Streams getUserMedia may hand out over a lifetime, and requests in flight.
MaxStreams == 3
MaxPending == 2

Streams == 1..MaxStreams
NoStream == 0

\* cam.variant     which version of the component
\* cam.mounted     the component is mounted
\* cam.isStreaming, cam.error   its state (error: the message is set)
\* cam.videoEl     videoRef.current is an element
\* cam.srcObject   videoRef.current.srcObject (NoStream: null)
\* cam.streamRef   streamRef.current ("streamRef" only)
\* cam.pending     startCamera calls awaiting getUserMedia
\* cam.acquired    streams handed out so far (they are 1..acquired)
\* cam.live        the streams whose tracks are live
\* cam.stops       per stream, how many times its tracks were stopped
\* cam.videoStream Index.videoStream, written through onVideoStream
\* cam.lastOp      the last request or event, for the claims
InitCam(v) ==
    [variant |-> v, mounted |-> TRUE, isStreaming |-> FALSE, error |-> FALSE,
     videoEl |-> (v = "streamRef"), srcObject |-> NoStream, streamRef |-> NoStream,
     pending |-> 0, acquired |-> 0, live |-> {}, stops |-> [s \in Streams |-> 0],
     videoStream |-> NoStream, lastOp |-> "init"]

\* The render that follows a state change: "streamRef" always renders the
\* <video>; "first" renders it only while isStreaming, "second" only while
\* isStreaming and the element already holds a srcObject.  An element that
\* is not rendered is unmounted and videoRef.current is null.
Render(c) ==
    LET el == CASE c.variant = "streamRef" -> c.mounted
                [] c.variant = "first"     -> c.mounted /\ c.isStreaming
                [] c.variant = "second"    -> c.mounted /\ c.isStreaming
                                              /\ c.videoEl /\ c.srcObject # NoStream
    IN  [c EXCEPT !.videoEl = el,
                  !.srcObject = IF el /\ c.videoEl THEN c.srcObject ELSE NoStream]

\* stream.getTracks().forEach(track => track.stop())
StopTracks(c, s) ==
    [c EXCEPT !.live = @ \ {s}, !.stops[s] = @ + 1]

\* stopCamera, "streamRef": part_000 lines 199-212.
StopCameraStreamRef(c) ==
    LET stream == IF c.videoEl /\ c.srcObject # NoStream THEN c.srcObject ELSE c.streamRef
        c1 == IF stream # NoStream THEN StopTracks(c, stream) ELSE c
    IN  [c1 EXCEPT !.srcObject = NoStream, !.streamRef = NoStream,
                   !.isStreaming = FALSE, !.videoStream = NoStream]

\* stopCamera, "first" and "second": part_000 lines 59-67, part_001 lines 55-63.
StopCameraGuarded(c) ==
    IF c.videoEl /\ c.srcObject # NoStream
    THEN [StopTracks(c, c.srcObject) EXCEPT !.srcObject = NoStream,
                                             !.isStreaming = FALSE,
                                             !.videoStream = NoStream]
    ELSE c

stopCamera(c) ==
    IF c.variant = "streamRef" THEN StopCameraStreamRef(c) ELSE StopCameraGuarded(c)

\* startCamera up to its await: "streamRef" and "second" clear the error, then
\* every version requests the camera.
startCamera(c) ==
    [c EXCEPT !.error = IF c.variant = "first" THEN @ ELSE FALSE,
              !.pending = @ + 1]

\* startCamera after getUserMedia resolved with stream s.
OnStream(c, s) ==
    LET c0 == [c EXCEPT !.pending = @ - 1, !.acquired = s, !.live = @ \cup {s}]
        c1 == IF c.variant = "streamRef" THEN [c0 EXCEPT !.streamRef = s] ELSE c0
    IN  IF c1.videoEl
        THEN [c1 EXCEPT !.srcObject = s,
                        !.isStreaming = c.mounted,
                        !.error = IF c.variant = "first" /\ c.mounted THEN FALSE ELSE @,
                        !.videoStream = s]
        ELSE c1

\* startCamera after getUserMedia rejected: the catch block.
OnDenied(c) ==
    [c EXCEPT !.pending = @ - 1,
              !.error = IF c.mounted THEN TRUE ELSE @,
              !.isStreaming = IF c.variant = "first" THEN @ ELSE FALSE,
              !.videoStream = NoStream]

\* The effect on [isActive], run when the prop has changed to `active`.
IsActiveEffect(c, active) ==
    IF c.variant = "streamRef"
    THEN IF active THEN startCamera(c) ELSE stopCamera(c)
    ELSE IF active /\ ~c.isStreaming THEN startCamera(c)
         ELSE IF ~active /\ c.isStreaming THEN stopCamera(c)
         ELSE c

-----------------------------------------------------------------------------
(* Page: Index.  Its squatAnalysis is written by handlePoseResults and passed *)
(* to VoiceCoach.                                                            *)

\* A squatAnalysis state: null, or an analysis.
NoAnalysis == [set |-> FALSE, value |-> NeutralAnalysis]

SomeAnalysis(a) == [set |-> TRUE, value |-> a]

\* The ids of the exercise catalog (WorkoutSession.tsx lines 24-29).  Every
\* button but the one of "squats" is disabled (line 127), so the selection
\* handler only ever writes the value the page already holds.
EXERCISES == {"squats", "lunges", "pushups", "planks"}

\* page.squatAnalysis   Index.squatAnalysis (line 17)
\* page.currentExercise Index.currentExercise (line 16)
InitIndex == [squatAnalysis |-> NoAnalysis, currentExercise |-> "squats"]

\* The props Index renders VoiceCoach with (lines 237-242): squatAnalysis,
\* the coaching callbacks and isActive.  No currentExercise is passed, so the
\* component's currentExercise is undefined.
VoiceCoachProps(pg) ==
    [squatAnalysis |-> pg.squatAnalysis, currentExercise |-> "undefined"]

\* handlePoseResults (lines 24-28): results.squatAnalysis is stored when it
\* is not null.
handlePoseResults(pg, resultsAnalysis) ==
    IF resultsAnalysis.set THEN [pg EXCEPT !.squatAnalysis = resultsAnalysis] ELSE pg

\* The 33-landmark lists the pose model delivers here: standing, and squatting
\* at depth 90.
FrameLandmarks ==
    {MkLandmarks(33, 500, 450, 550, 400, 800), MkLandmarks(33, 500, 450, 550, 760, 800)}

-----------------------------------------------------------------------------
(* Pose inference bridge: PoseDetection.  Index renders the component only   *)
(* while videoStream && isSessionActive (Index.tsx line 141).                *)

\* pose.mounted   the component is mounted
\* pose.init      initializePose: "idle", "loading" (awaiting the script),
\*                "ready" (poseRef.current is set) or "failed"
\* pose.loop      the frame-loop effect: "none" (it returned early or was
\*                cleaned up), "waiting" (for loadeddata) or "running"
\* pose.raf       a requestAnimationFrame(render) of the live loop is pending
\* pose.sending   a send() of the live loop is in flight
\* pose.staleSend a send() is in flight whose loop was cleaned up since
\* pose.staleOwn  a send() of a cleaned-up loop of this mounted component is
\*                in flight (its onResults still finds the canvas)
\* pose.staleRaf  a render of a cleaned-up loop is scheduled
\* pose.dims      the video has a non-zero decoded width and height
\* pose.poseError an error message is stored
\* pose.squatAnalysis  the component's own squatAnalysis state
\* pose.cbAnalysis  the squatAnalysis that the onResults registered with the
\*                model closed over (line 238 registers the onResults of the
\*                render that ran initializePose)
\* pose.lastFrame the analysis of the latest frame delivered with landmarks
\* pose.lastOp    the last step of the loop, for the claims
InitPose ==
    [mounted |-> FALSE, init |-> "idle", loop |-> "none", raf |-> FALSE,
     sending |-> FALSE, staleSend |-> FALSE, staleOwn |-> FALSE, staleRaf |-> FALSE,
     dims |-> FALSE, poseError |-> FALSE,
     squatAnalysis |-> NoAnalysis, cbAnalysis |-> NoAnalysis,
     lastFrame |-> NoAnalysis, lastOp |-> "init"]

\* The cleanup of the frame-loop effect (lines 304-314) and of the
\* initialisation effect (lines 246-251): active = false, the pending frame is
\* cancelled.  A send() in flight stays in flight.
PoseCleanup(p) ==
    [p EXCEPT !.loop = "none", !.raf = FALSE, !.sending = FALSE,
              !.staleSend = @ \/ p.sending, !.staleOwn = @ \/ p.sending,
              !.dims = FALSE, !.lastOp = "cleanup"]

\* The body of the frame-loop effect (lines 254-302), for the outcomes of
\* video.readyState >= 2: the loop starts at once or waits for loadeddata.
PoseLoopEffect(p, stream, active) ==
    IF stream = 0 \/ p.init # "ready" \/ ~active
    THEN {p}
    ELSE {[p EXCEPT !.loop = "running", !.raf = TRUE],
          [p EXCEPT !.loop = "waiting"]}

\* The pose component after Index rendered with the given videoStream and
\* isSessionActive: mounted, unmounted, or its effect on [videoStream,
\* isActive] re-run.
PoseAfterRender(p, oldStream, stream, active) ==
    LET shown == stream # 0 /\ active
    IN  IF ~p.mounted /\ shown
        THEN PoseLoopEffect([InitPose EXCEPT !.mounted = TRUE, !.init = "loading",
                                             !.staleSend = p.staleSend,
                                             !.staleRaf = p.staleRaf,
                                             !.lastFrame = p.lastFrame,
                                             !.lastOp = "mount"],
                            stream, active)
        ELSE IF p.mounted /\ ~shown
        THEN {[PoseCleanup(p) EXCEPT !.mounted = FALSE, !.init = "idle",
                                     !.poseError = FALSE, !.staleOwn = FALSE,
                                     !.squatAnalysis = NoAnalysis,
                                     !.cbAnalysis = NoAnalysis]}
        ELSE IF p.mounted /\ oldStream # stream
        THEN PoseLoopEffect(PoseCleanup(p), stream, active)
        ELSE {p}

\* initializePose completes: poseRef.current holds the Pose instance.
PoseInitReady ==
    /\ pose.mounted /\ pose.init = "loading"
    /\ pose' = [pose EXCEPT !.init = "ready", !.lastOp = "initReady"]
    /\ UNCHANGED <<heurVars, isSessionActive, cam, now, sess, voice, ep, page>>

\* initializePose fails: the catch block stores the message.
PoseInitFailed ==
    /\ pose.mounted /\ pose.init = "loading"
    /\ pose' = [pose EXCEPT !.init = "failed", !.poseError = TRUE, !.lastOp = "initFailed"]
    /\ UNCHANGED <<heurVars, isSessionActive, cam, now, sess, voice, ep, page>>

\* The loadeddata event: startIfReady starts the loop.
PoseVideoLoaded ==
    /\ pose.loop = "waiting"
    /\ pose' = [pose EXCEPT !.loop = "running", !.raf = TRUE, !.lastOp = "loadeddata"]
    /\ UNCHANGED <<heurVars, isSessionActive, cam, now, sess, voice, ep, page>>

\* The video gets its decoded size.
PoseVideoSized ==
    /\ pose.loop # "none" /\ ~pose.dims
    /\ pose' = [pose EXCEPT !.dims = TRUE, !.lastOp = "sized"]
    /\ UNCHANGED <<heurVars, isSessionActive, cam, now, sess, voice, ep, page>>

\* An animation frame of the live loop: render (lines 264-288) up to its await
\* or, without a decoded size, to its end.
PoseFrame ==
    /\ pose.loop = "running" /\ pose.raf
    /\ pose' = IF pose.dims
               THEN [pose EXCEPT !.raf = FALSE, !.sending = TRUE, !.lastOp = "send"]
               ELSE [pose EXCEPT !.raf = TRUE, !.lastOp = "skip"]
    /\ UNCHANGED <<heurVars, isSessionActive, cam, now, sess, voice, ep, page>>

\* The frames the model may deliver: without landmarks, or with a list.
FrameResults == {UndefinedLandmarks} \cup FrameLandmarks

\* onResults (lines 135-210) for a frame: with landmarks the analysis is
\* stored in the component; onPoseResults is then called with the
\* squatAnalysis the registered closure holds.  Without a canvas (the
\* component is unmounted) it returns at once.
onResultsPose(p, res) ==
    IF ~p.mounted \/ ~res.defined
    THEN p
    ELSE LET a == SomeAnalysis(analyzeSquat(res).value)
         IN  [p EXCEPT !.squatAnalysis = a, !.lastFrame = a]

onResultsPage(p, pg) ==
    IF ~p.mounted THEN pg ELSE handlePoseResults(pg, p.cbAnalysis)

\* send() of the live loop delivers its results and resolves: the next frame
\* is requested.
PoseSendResolved ==
    /\ pose.sending
    /\ \E res \in FrameResults :
          pose' = [onResultsPose(pose, res) EXCEPT
                      !.sending = FALSE, !.raf = TRUE,
                      !.lastOp = IF res.defined THEN "results" ELSE "sent"]
    /\ page' = onResultsPage(pose, page)
    /\ UNCHANGED <<heurVars, isSessionActive, cam, now, sess, voice, ep>>

\* A rejected send() that ends the loop.
PoseSendRejectedStopsLoop ==
    /\ pose.sending
    /\ pose' = [pose EXCEPT !.sending = FALSE, !.raf = FALSE, !.poseError = TRUE,
                            !.lastOp = "sendFailed"]
    /\ UNCHANGED <<heurVars, isSessionActive, cam, now, sess, voice, ep, page>>

\* send() of the live loop rejects: the catch block stores the message and
\* the next frame is requested.
PoseSendRejected ==
    /\ pose.sending
    /\ pose' = [pose EXCEPT !.sending = FALSE, !.raf = TRUE, !.poseError = TRUE,
                            !.lastOp = "sendFailed"]
    /\ UNCHANGED <<heurVars, isSessionActive, cam, now, sess, voice, ep, page>>

\* A send() of a cleaned-up loop settles, with results (delivered when the
\* component that sent it is still mounted) or without, or it rejects (the
\* message is stored when the component is still mounted): render resumes
\* after its await and requests a frame (line 287).
PoseStaleSendSettled ==
    /\ pose.staleSend
    /\ \/ \E res \in FrameResults :
             /\ ~pose.staleOwn => ~res.defined
             /\ pose' = [onResultsPose(pose, res) EXCEPT
                            !.staleSend = FALSE, !.staleOwn = FALSE, !.staleRaf = TRUE,
                            !.lastOp = IF res.defined THEN "results" ELSE "staleSettled"]
             /\ page' = IF pose.staleOwn THEN onResultsPage(pose, page) ELSE page
       \/ /\ pose' = [pose EXCEPT !.staleSend = FALSE, !.staleOwn = FALSE,
                                  !.staleRaf = TRUE,
                                  !.poseError = @ \/ pose.staleOwn,
                                  !.lastOp = "staleFailed"]
          /\ page' = page
    /\ UNCHANGED <<heurVars, isSessionActive, cam, now, sess, voice, ep>>

\* A frame of a cleaned-up loop that sends without looking at `active`.
PoseStaleFrameSends ==
    /\ pose.staleRaf
    /\ pose' = [pose EXCEPT !.staleRaf = FALSE, !.staleSend = TRUE,
                            !.lastOp = "staleFrame"]
    /\ UNCHANGED <<heurVars, isSessionActive, cam, now, sess, voice, ep, page>>

\* The frame of a cleaned-up loop: render returns at `if (!active) return`.
PoseStaleFrame ==
    /\ pose.staleRaf
    /\ pose' = [pose EXCEPT !.staleRaf = FALSE, !.lastOp = "staleFrame"]
    /\ UNCHANGED <<heurVars, isSessionActive, cam, now, sess, voice, ep, page>>

-----------------------------------------------------------------------------
(* Credential endpoint: the edge function eleven-signed-url.  Two versions   *)
(* are in the sources: "validate" (unnamed/part_003) and "plain"             *)
(* (supabase/functions/eleven-signed-url/index.ts).  The provider and the    *)
(* runtime are the environment.  A datum carries the set of its origins:     *)
(* "secret" (the XI_API_KEY value), "agentId", "provider" (text of the       *)
(* provider's answer), "runtime" (text of a runtime exception).  The         *)
(* provider's answers and the runtime's exception texts are taken not to     *)
(* repeat request headers; an exception of fetch may repeat its URL.         *)

EpVersions == {"validate", "plain"}

\* req.json(): the body does not parse, is null, or is an object whose
\* agentId is missing, empty or a non-empty string.
EpBodies == {"unparsable", "null", "noAgentId", "emptyAgentId", "agentId"}

\* Deno.env.get("XI_API_KEY"): undefined, "" or a key.
EpSecrets == {"absent", "empty", "set"}

\* The value of a field of the provider's JSON body: missing, "" or a
\* non-empty string.
EpValues == {"absent", "empty", "str"}

\* The provider's non-OK statuses.
EpProviderErrors == {401, 404, 422}

\* JavaScript truthiness and a || b.
Truthy(v) == v = "str"

OrElse(a, b) == IF Truthy(a) THEN a ELSE b

\* No response yet.
NoResp ==
    [status |-> 0, json |-> FALSE, cors |-> FALSE, kind |-> "none", error |-> "",
     provStatus |-> 0, details |-> "none", signedUrl |-> "absent", origins |-> {}]

\* new Response(JSON.stringify(...), {status, headers: {"Content-Type":
\* "application/json", ...corsHeaders}}).
JsonResp(status, kind, error, provStatus, details, signedUrl, origins) ==
    [status |-> status, json |-> TRUE, cors |-> TRUE, kind |-> kind, error |-> error,
     provStatus |-> provStatus, details |-> details, signedUrl |-> signedUrl,
     origins |-> origins]

\* new Response("ok", { headers: corsHeaders }) (line 17): status 200 by
\* default, the body is the text "ok".
PreflightResp ==
    [status |-> 200, json |-> FALSE, cors |-> TRUE, kind |-> "text:ok", error |-> "",
     provStatus |-> 0, details |-> "none", signedUrl |-> "absent", origins |-> {}]

\* The catch block (lines 76-81): String(e) of an exception with these origins.
UnexpectedError(origins) ==
    JsonResp(500, "error", "Unexpected error", 0, "exception", "absent", origins)

\* ep.phase     "idle", "fetchValidate" / "fetchUrl" (awaiting the provider),
\*              "done", "sent" (the caller has the response)
\* ep.version, ep.method, ep.body, ep.validate, ep.secret   the request and
\*              the environment it is served in
\* ep.readBody, ep.readSecret   req.json() / Deno.env.get were called
\* ep.calls     provider calls made for this request
\* ep.urlOrigins, ep.headerOrigins   origins of the URL and of the headers of
\*              the provider call
\* ep.prov      the provider's answer: "none", "throws", "ok", "badJson",
\*              "nullJson" or "error"; ep.provStatus its non-OK status;
\*              ep.provBody the three fields of its signed-URL body
\* ep.resp      the response
InitEp ==
    [phase |-> "idle", version |-> "validate", method |-> "POST", body |-> "agentId",
     validate |-> FALSE, secret |-> "set", readBody |-> FALSE, readSecret |-> FALSE,
     calls |-> 0, urlOrigins |-> {}, headerOrigins |-> {},
     prov |-> "none", provStatus |-> 0,
     provBody |-> [signed_url |-> "absent", url |-> "absent", signedUrl |-> "absent"],
     resp |-> NoResp]

\* The provider call with the key in the URL instead of the header.
ProviderCallKeyInUrl(e, phase) ==
    [e EXCEPT !.phase = phase, !.calls = @ + 1,
              !.urlOrigins = {"agentId", "secret"}, !.headerOrigins = {}]

\* fetch(url, { method: "GET", headers }) (lines 43, 60): the URL holds the
\* encoded agentId, the headers hold xi-api-key.
ProviderCall(e, phase) ==
    [e EXCEPT !.phase = phase, !.calls = @ + 1,
              !.urlOrigins = {"agentId"}, !.headerOrigins = {"secret"}]

\* The handler from its entry to its first await of the provider, or to its
\* response (lines 15-43, 59-60).
EpServe(e) ==
    IF e.method = "OPTIONS"
    THEN [e EXCEPT !.phase = "done", !.resp = PreflightResp]
    ELSE LET e1 == [e EXCEPT !.readBody = TRUE]
         IN  IF e.body = "unparsable" \/ e.body = "null"
             THEN [e1 EXCEPT !.phase = "done", !.resp = UnexpectedError({"runtime"})]
             ELSE IF e.body # "agentId"
             THEN [e1 EXCEPT !.phase = "done",
                             !.resp = JsonResp(400, "error", "Missing agentId", 0,
                                               "none", "absent", {})]
             ELSE IF e.secret # "set"
             THEN [e1 EXCEPT !.phase = "done", !.readSecret = TRUE,
                             !.resp = JsonResp(500, "error", "Missing XI_API_KEY secret",
                                               0, "none", "absent", {})]
             ELSE ProviderCall([e1 EXCEPT !.readSecret = TRUE],
                               IF e.version = "validate" /\ e.validate
                               THEN "fetchValidate" ELSE "fetchUrl")

\* The handler after the provider answered the validation call (lines 44-55).
EpAfterValidate(e) ==
    [e EXCEPT !.phase = "done",
              !.resp = CASE e.prov = "throws" -> UnexpectedError(e.urlOrigins \cup {"runtime"})
                         [] e.prov = "error" ->
                              JsonResp(200, "validation:false", "", e.provStatus,
                                       "provider", "absent", {"provider"})
                         [] e.prov = "badJson" -> UnexpectedError({"runtime", "provider"})
                         [] OTHER ->
                              JsonResp(200, "validation:true", "", 0, "none", "absent",
                                       {"provider", "agentId"})]

\* The handler after the provider answered the signed-URL call (lines 62-75):
\* JSON.stringify leaves out a signed_url that is undefined.
EpAfterSignedUrl(e) ==
    [e EXCEPT !.phase = "done",
              !.resp = CASE e.prov = "throws" -> UnexpectedError(e.urlOrigins \cup {"runtime"})
                         [] e.prov = "error" ->
                              JsonResp(500, "error", "ElevenLabs error", 0,
                                       "provider", "absent", {"provider"})
                         [] e.prov = "badJson" -> UnexpectedError({"runtime", "provider"})
                         [] e.prov = "nullJson" -> UnexpectedError({"runtime"})
                         [] OTHER ->
                              LET v == OrElse(e.provBody.signed_url,
                                              OrElse(e.provBody.url, e.provBody.signedUrl))
                              IN  JsonResp(200, "signed", "", 0, "none", v,
                                           IF v = "absent" THEN {} ELSE {"provider"})]

\* A request arrives and is served up to the provider call or the response.
EpRequest ==
    /\ ep.phase = "idle"
    /\ \E ver \in EpVersions, m \in {"OPTIONS", "POST"}, b \in EpBodies,
          val \in BOOLEAN, sec \in EpSecrets :
          ep' = EpServe([InitEp EXCEPT !.version = ver, !.method = m, !.body = b,
                                       !.validate = val, !.secret = sec])
    /\ UNCHANGED <<heurVars, isSessionActive, cam, pose, now, sess, voice, page>>

\* The provider answers the validation call, or fetch rejects.
EpValidateAnswer ==
    /\ ep.phase = "fetchValidate"
    /\ \E a \in {"throws", "ok", "badJson", "nullJson", "error"}, st \in EpProviderErrors :
          ep' = EpAfterValidate([ep EXCEPT !.prov = a,
                                           !.provStatus = IF a = "error" THEN st ELSE 0])
    /\ UNCHANGED <<heurVars, isSessionActive, cam, pose, now, sess, voice, page>>

\* The provider answers the signed-URL call, or fetch rejects.
EpSignedUrlAnswer ==
    /\ ep.phase = "fetchUrl"
    /\ \E a \in {"throws", "ok", "badJson", "nullJson", "error"}, st \in EpProviderErrors,
          f1 \in EpValues, f2 \in EpValues, f3 \in EpValues :
          ep' = EpAfterSignedUrl(
                   [ep EXCEPT !.prov = a,
                              !.provStatus = IF a = "error" THEN st ELSE 0,
                              !.provBody = IF a = "ok"
                                           THEN [signed_url |-> f1, url |-> f2, signedUrl |-> f3]
                                           ELSE @])
    /\ UNCHANGED <<heurVars, isSessionActive, cam, pose, now, sess, voice, page>>

\* The response is sent; the function is stateless and serves the next request.
EpSent ==
    /\ ep.phase = "done"
    /\ ep' = InitEp
    /\ UNCHANGED <<heurVars, isSessionActive, cam, pose, now, sess, voice, page>>

-----------------------------------------------------------------------------
(* Session coordinator: WorkoutSession, with the handlers of Index it calls. *)

ZeroStats ==
    [duration |-> 0, squatsCompleted |-> 0, goodFormReps |-> 0,
     currentStreak |-> 0, bestStreak |-> 0]

\* The period of the interval timer, in milliseconds.
tickPeriod == 1000

\* sess.showGetStarted    Index.showGetStarted
\* sess.sessionStartTime  0 stands for null
\* sess.sessionStats      the counters
\* sess.timer             the sessionStartTime the registered interval callback
\*                        closed over; 0 when no interval is registered
\* sess.timerDue          the time the interval is next due
\* sess.t0                when the running session was started or last reset
\* sess.wasReset          the running session was reset since its start
\* sess.lastOp, sess.tickAt   the last handler run, and the time of the last tick
InitSess ==
    [showGetStarted |-> TRUE, sessionStartTime |-> 0, sessionStats |-> ZeroStats,
     timer |-> 0, timerDue |-> 0, t0 |-> 0, wasReset |-> FALSE,
     lastOp |-> "init", tickAt |-> 0]

\* The timer effect with [isActive] as its only dependency.
TimerAfterActiveOnly(old, s, oldActive, active) ==
    IF oldActive = active
    THEN s
    ELSE IF active /\ s.sessionStartTime # 0
    THEN [s EXCEPT !.timer = s.sessionStartTime, !.timerDue = now + tickPeriod]
    ELSE [s EXCEPT !.timer = 0, !.timerDue = 0]

\* The timer effect without the clearInterval of its cleanup.
TimerAfterNoCleanup(old, s, oldActive, active) ==
    IF oldActive = active /\ old.sessionStartTime = s.sessionStartTime
    THEN s
    ELSE IF active /\ s.sessionStartTime # 0
    THEN [s EXCEPT !.timer = s.sessionStartTime, !.timerDue = now + tickPeriod]
    ELSE s

\* The timer effect on [isActive, sessionStartTime] (lines 48-70) after a
\* handler changed either: its cleanup clears the interval, its body
\* registers one, closing over sessionStartTime, when both are set.
TimerAfter(old, s, oldActive, active) ==
    IF oldActive = active /\ old.sessionStartTime = s.sessionStartTime
    THEN s
    ELSE IF active /\ s.sessionStartTime # 0
    THEN [s EXCEPT !.timer = s.sessionStartTime, !.timerDue = now + tickPeriod]
    ELSE [s EXCEPT !.timer = 0, !.timerDue = 0]

\* The clock steps between events, and the last time modelled.
ClockSteps == {700, 1000}
MaxNow == 5000

\* The page after a handler or event left the camera in state c and the
\* session flag at `active`: CameraFeed is rendered, then PoseDetection is
\* mounted, unmounted or re-run against the new videoStream.
PageRender(c, active) ==
    /\ cam' = Render(c)
    /\ pose' \in PoseAfterRender(pose, cam.videoStream, c.videoStream, active)

\* "Start Session": handleSessionToggle while inactive (lines 77-89), which
\* calls Index.handleSessionStart; CameraFeed's effect on [isActive] follows.
SessionToggleStart ==
    /\ ~isSessionActive
    /\ cam.mounted /\ cam.pending < MaxPending
    /\ isSessionActive' = TRUE
    /\ sess' = TimerAfter(sess,
                   [sess EXCEPT !.sessionStartTime = now, !.sessionStats = ZeroStats,
                                !.showGetStarted = FALSE, !.t0 = now,
                                !.wasReset = FALSE, !.lastOp = "start"],
                   FALSE, TRUE)
    /\ PageRender([IsActiveEffect(cam, TRUE) EXCEPT !.lastOp = "start"], TRUE)
    /\ UNCHANGED <<heurVars, now, voice, ep, page>>

\* "End Session": handleSessionToggle while active (lines 74-76), which calls
\* Index.handleSessionEnd; CameraFeed's effect on [isActive] follows.
SessionToggleEnd ==
    /\ isSessionActive
    /\ cam.mounted
    /\ isSessionActive' = FALSE
    /\ sess' = TimerAfter(sess,
                   [sess EXCEPT !.sessionStartTime = 0, !.lastOp = "end"],
                   TRUE, FALSE)
    /\ PageRender([IsActiveEffect(cam, FALSE) EXCEPT !.lastOp = "stop"], FALSE)
    /\ UNCHANGED <<heurVars, now, voice, ep, page>>

\* "Start Your First Workout": Index.handleQuickStart (lines 48-51), shown
\* while showGetStarted.  WorkoutSession's own state is not touched.
QuickStart ==
    /\ sess.showGetStarted
    /\ cam.mounted /\ cam.pending < MaxPending
    /\ isSessionActive' = TRUE
    /\ sess' = TimerAfter(sess,
                   [sess EXCEPT !.showGetStarted = FALSE, !.t0 = now,
                                !.wasReset = FALSE, !.lastOp = "quickStart"],
                   isSessionActive, TRUE)
    /\ PageRender(IF isSessionActive THEN cam
                  ELSE [IsActiveEffect(cam, TRUE) EXCEPT !.lastOp = "start"], TRUE)
    /\ UNCHANGED <<heurVars, now, voice, ep, page>>

\* The reset button: resetSession (lines 92-103), enabled while active or
\* while a duration is shown.
ResetSession ==
    /\ isSessionActive \/ sess.sessionStats.duration # 0
    /\ sess' = TimerAfter(sess,
                   [sess EXCEPT !.sessionStats = ZeroStats,
                                !.sessionStartTime = IF isSessionActive THEN now ELSE @,
                                !.t0 = IF isSessionActive THEN now ELSE @,
                                !.wasReset = isSessionActive,
                                !.lastOp = "reset"],
                   isSessionActive, isSessionActive)
    /\ UNCHANGED <<heurVars, isSessionActive, cam, pose, now, voice, ep, page>>

\* The tick's updater counting a repetition as well.
TickStatsCountsRep(prev, elapsed) ==
    [prev EXCEPT !.duration = elapsed, !.squatsCompleted = 1]

\* The updater the tick passes to setSessionStats (lines 57-60): the previous
\* counters with the duration replaced.
TickStats(prev, elapsed) ==
    [prev EXCEPT !.duration = elapsed]

\* The interval callback (lines 54-61), run when the interval is due or late.
TimerTick ==
    /\ sess.timer # 0 /\ now >= sess.timerDue
    /\ sess' = [sess EXCEPT !.sessionStats =
                                TickStats(@, (now - sess.timer) \div 1000),
                            !.timerDue = @ + tickPeriod,
                            !.lastOp = "tick", !.tickAt = now]
    /\ UNCHANGED <<heurVars, isSessionActive, cam, pose, now, voice, ep, page>>

\* Time passes.
AdvanceClock ==
    /\ \E d \in ClockSteps :
          /\ now + d <= MaxNow
          /\ now' = now + d
    /\ UNCHANGED <<heurVars, isSessionActive, cam, pose, sess, voice, ep, page>>

-----------------------------------------------------------------------------
(* Voice bridge: VoiceCoach.  The conversation SDK (@11labs/react, not in    *)
(* the sources) is the environment: it reports its status and calls          *)
(* onConnect and onDisconnect.  Every handler is a closure of one render and *)
(* reads the state of that render.  Which render's onDisconnect the SDK      *)
(* calls is the SDK's choice: the one it was given when the connection was   *)
(* begun, or the one of the latest render; the model allows both.            *)

\* Asynchronous calls of the component that may be in flight at once.
MaxTasks == 2

\* The grace window after a connect attempt, and the fallback's connect
\* timeout, in milliseconds.
graceWindow == 5000
fallbackTimeout == 5000

\* The coarse clock of the voice bridge.
CoarseSteps == {2500}
MaxVoiceNow == 8500

\* Fallback attempts counted before the model stops counting.
MaxFallbackStarts == 2

\* Appends to the debug log, and tool calls, before the model stops counting.
MaxLogSeq == 8
MaxToolCalls == 2

TaskIds == 1..MaxTasks

\* A call in flight.  kind: "start" (startCoaching), "inline" (the fallback
\* inside onDisconnect), "fallback" (tryPrivateFallback).  pc: the await it is
\* suspended at.  snap: the state of the render whose closure the call runs
\* in.  deadline: when the fallback's timeout fires.
NoSnap == [usePrivate |-> FALSE, connectAttemptAt |-> 0, fallbackTried |-> FALSE]

FreeTask == [kind |-> "free", pc |-> "none", snap |-> NoSnap, deadline |-> 0]

\* The state a closure of the current render reads.
Snap(v) ==
    [usePrivate |-> v.usePrivate, connectAttemptAt |-> v.connectAttemptAt,
     fallbackTried |-> v.fallbackTried]

\* voice.status            the SDK's status
\* voice.usePrivate, voice.connectAttemptAt (0: none), voice.fallbackTried,
\* voice.lastError (a message is set)      the component's state
\* voice.isCoachingActive  Index.isCoachingActive, through onCoachingStart/Stop
\* voice.cb                the render state of the callbacks the SDK was given
\*                         when the current connection was begun
\* voice.tasks             the calls in flight
\* voice.overflow          a call was started with every slot taken
\* voice.fallbackStarts    private-fallback attempts started so far
\* voice.urlRequests       signed-URL requests made so far by fallbacks
\* voice.debugMode         the "debug" checkbox, read from localStorage at mount
\* voice.logSeq            advanced by every append to logs (log, lines 42-49)
\* voice.lastToolCallAt    0: no tool was called
\* voice.toolCalls         tool calls so far
\* voice.toolRet           what the last tool call returned: the move it
\*                         names, and the rest of the posture summary
\* voice.lastOp            the last event, for the claims
\* With debug mode on, the status-logging effect (lines 306-308) has logged
\* once at mount.
InitVoiceDebug(private, debug) ==
    [status |-> "disconnected", usePrivate |-> private, connectAttemptAt |-> 0,
     fallbackTried |-> FALSE, lastError |-> FALSE, isCoachingActive |-> FALSE,
     cb |-> NoSnap,
     tasks |-> [t \in TaskIds |-> FreeTask], overflow |-> FALSE,
     fallbackStarts |-> 0, urlRequests |-> 0,
     debugMode |-> debug, logSeq |-> IF debug THEN 1 ELSE 0,
     lastToolCallAt |-> 0, toolCalls |-> 0,
     toolRet |-> [move |-> "none", summary |-> "none"],
     lastOp |-> "init"]

InitVoice(private) == InitVoiceDebug(private, FALSE)

\* log(...) (lines 42-49): with debug mode on, an entry is appended to logs.
Logged(v) == [v EXCEPT !.logSeq = IF v.debugMode THEN @ + 1 ELSE @]

FreeSlots(v) == {t \in TaskIds : v.tasks[t].kind = "free"}

\* Start a call: it takes the lowest free slot.
Spawn(v, task) ==
    IF FreeSlots(v) = {}
    THEN [v EXCEPT !.overflow = TRUE]
    ELSE LET t == CHOOSE x \in FreeSlots(v) : \A y \in FreeSlots(v) : x <= y
         IN  [v EXCEPT !.tasks[t] = task]

Finish(v, t) == [v EXCEPT !.tasks[t] = FreeTask]

\* justAttempted: !!connectAttemptAt && Date.now() - connectAttemptAt < 5000
JustAttempted(v) ==
    v.connectAttemptAt # 0 /\ now - v.connectAttemptAt < graceWindow

\* conversation.startSession called by call t: an open session answers at
\* once, a connection being made is awaited, otherwise a connection is begun
\* with the callbacks of the caller's render.
StartSession(v, t) ==
    IF v.status = "connected"
    THEN Finish(v, t)
    ELSE [v EXCEPT !.status = "connecting",
                   !.cb = IF v.status = "connecting" THEN @ ELSE v.tasks[t].snap,
                   !.tasks[t].pc = IF v.tasks[t].kind = "fallback" THEN "race" ELSE "session",
                   !.tasks[t].deadline = IF v.tasks[t].kind = "fallback"
                                         THEN now + fallbackTimeout ELSE 0]

\* onDisconnect (lines 92-125) of the render with state r: onCoachingStop,
\* then the inline fallback when a non-private attempt dropped within the
\* grace window and no fallback was tried; it requests the signed URL at once.
OnDisconnect(v, r) ==
    LET v1 == Logged([v EXCEPT !.isCoachingActive = FALSE])
    IN  IF ~r.usePrivate /\ JustAttempted(r) /\ ~r.fallbackTried
        THEN Spawn([v1 EXCEPT !.fallbackTried = TRUE,
                              !.fallbackStarts = @ + 1,
                              !.urlRequests = @ + 1],
                   [kind |-> "inline", pc |-> "signedUrl", snap |-> r, deadline |-> 0])
        ELSE v1

\* The condition of the status watcher (line 299).
WatcherFires(v) ==
    v.status = "disconnected" /\ ~v.usePrivate /\ ~v.fallbackTried /\ JustAttempted(v)

\* The status-watcher effect (lines 297-303) after a render in which one of
\* status, connectAttemptAt, usePrivate, fallbackTried changed: it calls
\* tryPrivateFallback, which sets fallbackTried and awaits endSession and the
\* microphone (lines 229-233).
Watcher(old, v) ==
    IF /\ <<old.status, old.connectAttemptAt, old.usePrivate, old.fallbackTried>>
            # <<v.status, v.connectAttemptAt, v.usePrivate, v.fallbackTried>>
       /\ WatcherFires(v)
    THEN Spawn(Logged([v EXCEPT !.fallbackTried = TRUE, !.fallbackStarts = @ + 1]),
               [kind |-> "fallback", pc |-> "mic", snap |-> Snap(v), deadline |-> 0])
    ELSE v

\* The component after a handler left it in state v: the render and its
\* effects, the status-logging effect (lines 306-308) among them.
VoiceStep(v, op) ==
    LET v1 == IF v.status # voice.status THEN Logged(v) ELSE v
        v2 == Watcher(voice, v1)
    IN  /\ ~v2.overflow
        /\ v2.fallbackStarts <= MaxFallbackStarts
        /\ v2.logSeq <= MaxLogSeq
        /\ voice' = [v2 EXCEPT !.lastOp = op]

\* The calls awaiting the connection settle when it is made or fails.
\* A fallback whose race is still open and whose connect failed runs its
\* catch block (lines 251-255).
SettleWaiters(v, ok) ==
    [v EXCEPT !.tasks = [t \in TaskIds |->
                            IF v.tasks[t].pc \in {"session", "race", "late"}
                            THEN FreeTask ELSE v.tasks[t]],
              !.lastError = IF ~ok /\ \E t \in TaskIds : v.tasks[t].pc = "race"
                            THEN TRUE ELSE @]

\* "Start Coaching": startCoaching up to its first await (lines 175-183).
\* The agent id is the hard-coded one, never empty.
VoiceClickStart ==
    /\ voice.status # "connected"
    /\ VoiceStep(Spawn(voice, [kind |-> "start", pc |-> "mic",
                               snap |-> Snap(voice), deadline |-> 0]),
                 "clickStart")
    /\ UNCHANGED <<heurVars, isSessionActive, cam, pose, now, sess, ep, page>>

\* The microphone is granted: startCoaching records the attempt and, in
\* public mode, starts the session (lines 190-193, 216).
VoiceMicGranted ==
    /\ \E t \in TaskIds :
          /\ voice.tasks[t].kind = "start" /\ voice.tasks[t].pc = "mic"
          /\ LET v1 == Logged([voice EXCEPT !.connectAttemptAt = now, !.lastError = FALSE])
             IN  VoiceStep(IF voice.tasks[t].snap.usePrivate
                           THEN [v1 EXCEPT !.tasks[t].pc = "validate"]
                           ELSE StartSession(v1, t),
                           "micGranted")
    /\ UNCHANGED <<heurVars, isSessionActive, cam, pose, now, sess, ep, page>>

\* A denied microphone that still records the connect attempt.
AfterMicDeniedRecordsAttempt(v, t) ==
    [Finish(v, t) EXCEPT !.connectAttemptAt = now]

\* The catch block of the microphone request (lines 184-188): an alert, and
\* startCoaching returns.
AfterMicDenied(v, t) == Finish(v, t)

\* The microphone is denied.
VoiceMicDenied ==
    /\ \E t \in TaskIds :
          /\ voice.tasks[t].kind = "start" /\ voice.tasks[t].pc = "mic"
          /\ VoiceStep(AfterMicDenied(voice, t), "micDenied")
    /\ UNCHANGED <<heurVars, isSessionActive, cam, pose, now, sess, ep, page>>

\* startCoaching going on to the signed URL whatever the validation said.
AfterValidationIgnoresInvalid(v, t, valid) ==
    [v EXCEPT !.tasks[t].pc = "signedUrl"]

\* startCoaching after the validation answer (lines 199-208): valid === false
\* is logged and ends the start, any other answer goes on to request the
\* signed URL.
AfterValidation(v, t, valid) ==
    IF valid THEN [v EXCEPT !.tasks[t].pc = "signedUrl"] ELSE Logged(Finish(v, t))

\* The validation answer arrives, whatever it is.
VoiceValidated ==
    /\ \E t \in TaskIds, valid \in BOOLEAN :
          /\ voice.tasks[t].kind = "start" /\ voice.tasks[t].pc = "validate"
          /\ VoiceStep(AfterValidation(voice, t, valid),
                       IF valid THEN "validated" ELSE "invalid")
    /\ UNCHANGED <<heurVars, isSessionActive, cam, pose, now, sess, ep, page>>

\* The validation call of a pending startCoaching (lines 196-198: the body is
\* {agentId, validate: true}) reaches the endpoint, which serves it.
EpValidationRequest ==
    /\ ep.phase \in {"idle", "sent"}
    /\ \E t \in TaskIds :
          voice.tasks[t].kind = "start" /\ voice.tasks[t].pc = "validate"
    /\ \E ver \in EpVersions, sec \in EpSecrets :
          ep' = EpServe([InitEp EXCEPT !.version = ver, !.validate = TRUE,
                                       !.secret = sec])
    /\ UNCHANGED <<heurVars, isSessionActive, cam, pose, now, sess, voice, page>>

\* The endpoint's response reaches startCoaching: functions.invoke gives the
\* parsed body as data for a 2xx response and null otherwise, and the start
\* ends only on data.valid === false (line 199).  ep keeps the response, in
\* phase "sent".
VoiceValidationAnswered ==
    /\ ep.phase = "done" /\ ep.validate
    /\ \E t \in TaskIds :
          /\ voice.tasks[t].kind = "start" /\ voice.tasks[t].pc = "validate"
          /\ LET valid == ~(ep.resp.status = 200 /\ ep.resp.kind = "validation:false")
             IN  VoiceStep(AfterValidation(voice, t, valid),
                           IF valid THEN "validated" ELSE "invalid")
    /\ ep' = [ep EXCEPT !.phase = "sent"]
    /\ UNCHANGED <<heurVars, isSessionActive, cam, pose, now, sess, page>>

\* The fallback's endSession and microphone request settle (lines 232-237);
\* it requests the signed URL.
VoiceFallbackMic ==
    /\ \E t \in TaskIds :
          /\ voice.tasks[t].kind = "fallback" /\ voice.tasks[t].pc = "mic"
          /\ VoiceStep([voice EXCEPT !.tasks[t].pc = "signedUrl",
                                     !.urlRequests = @ + 1],
                       "fallbackMic")
    /\ UNCHANGED <<heurVars, isSessionActive, cam, pose, now, sess, ep, page>>

\* The endpoint answers with a signed URL: the caller starts the session
\* (lines 109, 213, 244-250).
VoiceSignedUrl ==
    /\ \E t \in TaskIds :
          /\ voice.tasks[t].pc = "signedUrl"
          /\ VoiceStep(StartSession(IF voice.tasks[t].kind = "inline"
                                     THEN voice ELSE Logged(voice), t),
                       "signedUrl")
    /\ UNCHANGED <<heurVars, isSessionActive, cam, pose, now, sess, ep, page>>

\* The endpoint answers with an error or without a signed_url: the caller's
\* catch block runs; tryPrivateFallback's sets lastError (line 254).
VoiceSignedUrlFailed ==
    /\ \E t \in TaskIds :
          /\ voice.tasks[t].pc = "signedUrl"
          /\ \E missing \in BOOLEAN :
                VoiceStep([(IF missing /\ voice.tasks[t].kind # "inline"
                            THEN Logged(Finish(voice, t)) ELSE Finish(voice, t))
                           EXCEPT !.lastError = IF voice.tasks[t].kind = "fallback"
                                                THEN TRUE ELSE @],
                          "signedUrlFailed")
    /\ UNCHANGED <<heurVars, isSessionActive, cam, pose, now, sess, ep, page>>

\* The fallback's 5 s timer fires before its connect settled: the race
\* rejects and the catch block runs (lines 249-255).  The connect stays pending.
VoiceFallbackTimeout ==
    /\ \E t \in TaskIds :
          /\ voice.tasks[t].pc = "race" /\ now >= voice.tasks[t].deadline
          /\ VoiceStep([voice EXCEPT !.tasks[t].pc = "late", !.lastError = TRUE],
                       "fallbackTimeout")
    /\ UNCHANGED <<heurVars, isSessionActive, cam, pose, now, sess, ep, page>>

\* The SDK connects: onConnect (lines 88-91), and the awaiting calls resume.
SdkConnected ==
    /\ voice.status = "connecting"
    /\ VoiceStep(Logged([SettleWaiters(voice, TRUE) EXCEPT !.status = "connected",
                                                           !.isCoachingActive = TRUE]),
                 IF \E t \in TaskIds : voice.tasks[t].pc = "late"
                 THEN "lateConnected" ELSE "connected")
    /\ UNCHANGED <<heurVars, isSessionActive, cam, pose, now, sess, ep, page>>

\* The SDK fails to connect: startSession rejects in the awaiting calls.
SdkConnectFailed ==
    /\ voice.status = "connecting"
    /\ VoiceStep([SettleWaiters(voice, FALSE) EXCEPT !.status = "disconnected"],
                 IF ~voice.usePrivate /\ JustAttempted(voice)
                 THEN "quickDisconnect" ELSE "connectFailed")
    /\ UNCHANGED <<heurVars, isSessionActive, cam, pose, now, sess, ep, page>>

\* The SDK session drops: onDisconnect.
SdkDisconnected ==
    /\ voice.status = "connected"
    /\ \E r \in {Snap(voice), voice.cb} :
          VoiceStep(OnDisconnect([voice EXCEPT !.status = "disconnected"], r),
                    IF ~voice.usePrivate /\ JustAttempted(voice)
                    THEN "quickDisconnect" ELSE "disconnected")
    /\ UNCHANGED <<heurVars, isSessionActive, cam, pose, now, sess, ep, page>>

\* "Stop Coaching": stopCoaching (lines 259-265) ends the session, and the SDK
\* calls onDisconnect.
VoiceClickStop ==
    /\ voice.status = "connected"
    /\ \E r \in {Snap(voice), voice.cb} :
          VoiceStep(OnDisconnect([voice EXCEPT !.status = "disconnected"], r), "clickStop")
    /\ UNCHANGED <<heurVars, isSessionActive, cam, pose, now, sess, ep, page>>

\* The SDK reports an error: onError (lines 129-133).
SdkError ==
    /\ voice.status # "disconnected"
    /\ ~voice.lastError
    /\ VoiceStep([voice EXCEPT !.lastError = TRUE], "error")
    /\ UNCHANGED <<heurVars, isSessionActive, cam, pose, now, sess, ep, page>>

\* A client tool that also clears lastError.
ToolCallClearsError(v, pg, tool) ==
    [Logged(v) EXCEPT !.lastToolCallAt = now, !.toolCalls = @ + 1, !.lastError = FALSE,
                      !.toolRet =
                          [move |-> VoiceCoachProps(pg).currentExercise,
                           summary |->
                              IF tool = "getCurrentMove" THEN "none"
                              ELSE IF VoiceCoachProps(pg).squatAnalysis.set
                              THEN "posture" ELSE "No posture detected yet"]]

\* clientTools (lines 65-87): getPostureSnapshot and getCurrentMove set
\* lastToolCallAt, log, and return a text read from the props.
ToolCall(v, pg, tool) ==
    [Logged(v) EXCEPT !.lastToolCallAt = now, !.toolCalls = @ + 1,
                      !.toolRet =
                          [move |-> VoiceCoachProps(pg).currentExercise,
                           summary |->
                              IF tool = "getCurrentMove" THEN "none"
                              ELSE IF VoiceCoachProps(pg).squatAnalysis.set
                              THEN "posture" ELSE "No posture detected yet"]]

\* The agent calls a client tool during a session.
VoiceToolCall ==
    /\ voice.status = "connected"
    /\ voice.toolCalls < MaxToolCalls
    /\ \E tool \in {"getPostureSnapshot", "getCurrentMove"} :
          VoiceStep(ToolCall(voice, page, tool), tool)
    /\ UNCHANGED <<heurVars, isSessionActive, cam, pose, now, sess, ep, page>>

\* The "Use private agent" checkbox.
VoiceTogglePrivate ==
    /\ VoiceStep([voice EXCEPT !.usePrivate = ~@], "togglePrivate")
    /\ UNCHANGED <<heurVars, isSessionActive, cam, pose, now, sess, ep, page>>

\* Time passes, in the steps of the voice bridge's clock.
AdvanceClockCoarse ==
    /\ \E d \in CoarseSteps :
          /\ now + d <= MaxVoiceNow
          /\ now' = now + d
    /\ UNCHANGED <<heurVars, isSessionActive, cam, pose, sess, voice, ep, page>>

-----------------------------------------------------------------------------
(* Capture adapter: the events of the component                              *)

\* The camera button: onClick={isStreaming ? stopCamera : startCamera}.
CamClickStart ==
    /\ cam.mounted /\ ~cam.isStreaming
    /\ cam.pending < MaxPending
    /\ PageRender([startCamera(cam) EXCEPT !.lastOp = "start"], isSessionActive)
    /\ UNCHANGED <<heurVars, isSessionActive, now, sess, voice, ep, page>>

CamClickStop ==
    /\ cam.mounted /\ cam.isStreaming
    /\ PageRender([stopCamera(cam) EXCEPT !.lastOp = "stop"], isSessionActive)
    /\ UNCHANGED <<heurVars, isSessionActive, now, sess, voice, ep, page>>

\* The "Try Again" button, shown while not streaming with an error.
CamClickTryAgain ==
    /\ cam.mounted /\ ~cam.isStreaming /\ cam.error
    /\ cam.pending < MaxPending
    /\ PageRender([startCamera(cam) EXCEPT !.lastOp = "start"], isSessionActive)
    /\ UNCHANGED <<heurVars, isSessionActive, now, sess, voice, ep, page>>

\* A pending getUserMedia resolves with a fresh stream.
CamGranted ==
    /\ cam.pending > 0
    /\ cam.acquired < MaxStreams
    /\ PageRender([OnStream(cam, cam.acquired + 1) EXCEPT !.lastOp = "granted"],
                  isSessionActive)
    /\ UNCHANGED <<heurVars, isSessionActive, now, sess, voice, ep, page>>

\* A pending getUserMedia rejects (permission denied, no device).
CamDenied ==
    /\ cam.pending > 0
    /\ PageRender([OnDenied(cam) EXCEPT !.lastOp = "denied"], isSessionActive)
    /\ UNCHANGED <<heurVars, isSessionActive, now, sess, voice, ep, page>>

\* The component is torn down: React detaches the ref of the <video>, then
\* runs the cleanup of the mount effect, which calls stopCamera.
CamUnmount ==
    /\ cam.mounted
    /\ LET detached == IF cam.variant = "streamRef"
                       THEN [cam EXCEPT !.videoEl = FALSE]
                       ELSE [cam EXCEPT !.videoEl = FALSE, !.srcObject = NoStream]
       IN  PageRender([stopCamera(detached) EXCEPT !.mounted = FALSE,
                                                   !.lastOp = "unmount"],
                      isSessionActive)
    /\ UNCHANGED <<heurVars, isSessionActive, now, sess, voice, ep, page>>

InitCamera ==
    /\ InitHeur
    /\ isSessionActive = FALSE
    /\ cam \in {InitCam(v) : v \in Variants}
    /\ pose = InitPose
    /\ now = 1000
    /\ sess = InitSess
    /\ voice = InitVoice(FALSE)
    /\ ep = InitEp
    /\ page = InitIndex

NextCamera ==
    \/ SessionToggleStart
    \/ SessionToggleEnd
    \/ CamClickStart
    \/ CamClickStop
    \/ CamClickTryAgain
    \/ CamGranted
    \/ CamDenied
    \/ CamUnmount

SpecCamera == InitCamera /\ [][NextCamera]_vars

\* The session coordinator with its timer and the clock; the camera requests
\* its start handlers make are answered.
NextSession ==
    \/ SessionToggleStart
    \/ SessionToggleEnd
    \/ QuickStart
    \/ ResetSession
    \/ TimerTick
    \/ AdvanceClock
    \/ CamGranted
    \/ CamDenied

SpecSession == InitCamera /\ [][NextSession]_vars

-----------------------------------------------------------------------------
(* Claims about the capture adapter                                          *)

\* C6: after a sequence of start and stop requests whose last step is a stop,
\* with no camera request still pending, no acquired stream has a live track.
C6_NoLiveTrackAfterFinalStop ==
    (cam.lastOp = "stop" /\ cam.pending = 0) => cam.live = {}

\* C7: once the component is torn down and no request is pending, every
\* acquired stream has had its tracks stopped exactly once; and no stream is
\* ever stopped twice.
C7_StoppedExactlyOnce ==
    /\ \A s \in Streams : cam.stops[s] <= 1
    /\ (~cam.mounted /\ cam.pending = 0)
          => \A s \in 1..cam.acquired : cam.stops[s] = 1

\* C8: at no time do two acquired streams have live tracks.
C8_AtMostOneLiveStream ==
    Cardinality(cam.live) <= 1
-----------------------------------------------------------------------------
(* Specifications                                                            *)

InitAnalyze ==
    /\ landmarks \in LandmarkInputs
    /\ ret = "none"
    /\ analysis = NeutralAnalysis
    /\ isSessionActive = FALSE
    /\ cam = InitCam("streamRef")
    /\ pose = InitPose
    /\ now = 1000
    /\ sess = InitSess
    /\ voice = InitVoice(FALSE)
    /\ ep = InitEp
    /\ page = InitIndex

NextAnalyze == Analyze

SpecAnalyze == InitAnalyze /\ [][NextAnalyze]_vars

\* The voice bridge with the SDK, the endpoint, the microphone and the clock.
InitVoiceSpec ==
    /\ InitHeur
    /\ isSessionActive = FALSE
    /\ cam = InitCam("streamRef")
    /\ pose = InitPose
    /\ now = 1000
    /\ sess = InitSess
    /\ voice \in {InitVoice(b) : b \in BOOLEAN}
    /\ ep = InitEp
    /\ page = InitIndex

NextVoice ==
    \/ VoiceClickStart
    \/ VoiceMicGranted
    \/ VoiceMicDenied
    \/ VoiceValidated
    \/ VoiceFallbackMic
    \/ VoiceSignedUrl
    \/ VoiceSignedUrlFailed
    \/ VoiceFallbackTimeout
    \/ SdkConnected
    \/ SdkConnectFailed
    \/ SdkDisconnected
    \/ VoiceClickStop
    \/ SdkError
    \/ VoiceTogglePrivate
    \/ AdvanceClockCoarse

SpecVoice == InitVoiceSpec /\ [][NextVoice]_vars

\* The credential endpoint serving requests one after another.
InitEndpoint ==
    /\ InitHeur
    /\ isSessionActive = FALSE
    /\ cam = InitCam("streamRef")
    /\ pose = InitPose
    /\ now = 1000
    /\ sess = InitSess
    /\ voice = InitVoice(FALSE)
    /\ ep = InitEp
    /\ page = InitIndex

NextEndpoint ==
    \/ EpRequest
    \/ EpValidateAnswer
    \/ EpSignedUrlAnswer
    \/ EpSent

SpecEndpoint == InitEndpoint /\ [][NextEndpoint]_vars

\* Starts in public mode with the microphone granted or denied, the SDK's
\* answers, the status watcher's fallback and the clock.
InitStartGuards ==
    /\ InitHeur
    /\ isSessionActive = FALSE
    /\ cam = InitCam("streamRef")
    /\ pose = InitPose
    /\ now = 1000
    /\ sess = InitSess
    /\ voice = InitVoice(FALSE)
    /\ ep = InitEp
    /\ page = InitIndex

NextStartGuards ==
    \/ VoiceClickStart
    \/ VoiceMicGranted
    \/ VoiceMicDenied
    \/ SdkConnected
    \/ SdkConnectFailed
    \/ SdkDisconnected
    \/ VoiceFallbackMic
    \/ VoiceSignedUrlFailed
    \/ AdvanceClockCoarse

SpecStartGuards == InitStartGuards /\ [][NextStartGuards]_vars

\* A start in private mode against the endpoint: the validation call is
\* served by the endpoint, the signed-URL call and the SDK answer freely.
InitPrivateStart ==
    /\ InitHeur
    /\ isSessionActive = FALSE
    /\ cam = InitCam("streamRef")
    /\ pose = InitPose
    /\ now = 1000
    /\ sess = InitSess
    /\ voice = InitVoice(TRUE)
    /\ ep = InitEp
    /\ page = InitIndex

NextPrivateStart ==
    \/ VoiceClickStart
    \/ VoiceMicGranted
    \/ VoiceMicDenied
    \/ EpValidationRequest
    \/ EpValidateAnswer
    \/ EpSignedUrlAnswer
    \/ VoiceValidationAnswered
    \/ VoiceSignedUrl
    \/ VoiceSignedUrlFailed
    \/ SdkConnected
    \/ SdkConnectFailed
    \/ VoiceClickStop

SpecPrivateStart == InitPrivateStart /\ [][NextPrivateStart]_vars

\* The coaching data path: camera, pose loop, Index and the voice tools, with
\* debug logging on or off.
InitCoach ==
    /\ InitHeur
    /\ isSessionActive = FALSE
    /\ cam = InitCam("streamRef")
    /\ pose = InitPose
    /\ now = 1000
    /\ sess = InitSess
    /\ voice \in {InitVoiceDebug(FALSE, d) : d \in BOOLEAN}
    /\ ep = InitEp
    /\ page = InitIndex

NextCoach ==
    \/ SessionToggleStart
    \/ SessionToggleEnd
    \/ CamGranted
    \/ PoseInitReady
    \/ PoseVideoLoaded
    \/ PoseVideoSized
    \/ PoseFrame
    \/ PoseSendResolved
    \/ PoseStaleSendSettled
    \/ PoseStaleFrame
    \/ VoiceClickStart
    \/ VoiceMicGranted
    \/ SdkConnected
    \/ SdkError
    \/ VoiceToolCall

SpecCoach == InitCoach /\ [][NextCoach]_vars

\* The pose loop on the page: the session toggle, the camera's answers and
\* PoseDetection.
InitPoseLoop ==
    /\ InitHeur
    /\ isSessionActive = FALSE
    /\ cam = InitCam("streamRef")
    /\ pose = InitPose
    /\ now = 1000
    /\ sess = InitSess
    /\ voice = InitVoice(FALSE)
    /\ ep = InitEp
    /\ page = InitIndex

NextPoseLoop ==
    \/ SessionToggleStart
    \/ SessionToggleEnd
    \/ CamGranted
    \/ CamDenied
    \/ PoseInitReady
    \/ PoseInitFailed
    \/ PoseVideoLoaded
    \/ PoseVideoSized
    \/ PoseFrame
    \/ PoseSendResolved
    \/ PoseSendRejected
    \/ PoseStaleSendSettled
    \/ PoseStaleFrame

SpecPoseLoop == InitPoseLoop /\ [][NextPoseLoop]_vars

\* The page: Index with WorkoutSession, CameraFeed, PoseDetection and
\* VoiceCoach (in private mode) together.
InitPage ==
    /\ InitHeur
    /\ isSessionActive = FALSE
    /\ cam = InitCam("streamRef")
    /\ pose = InitPose
    /\ now = 1000
    /\ sess = InitSess
    /\ voice = InitVoice(TRUE)
    /\ ep = InitEp
    /\ page = InitIndex

NextPage ==
    \/ SessionToggleStart
    \/ SessionToggleEnd
    \/ QuickStart
    \/ CamGranted
    \/ CamDenied
    \/ PoseInitReady
    \/ PoseInitFailed
    \/ PoseVideoLoaded
    \/ PoseVideoSized
    \/ PoseFrame
    \/ PoseSendResolved
    \/ PoseSendRejected
    \/ PoseStaleSendSettled
    \/ PoseStaleFrame
    \/ VoiceClickStart
    \/ VoiceMicGranted
    \/ VoiceMicDenied
    \/ VoiceValidated
    \/ VoiceSignedUrl
    \/ VoiceSignedUrlFailed
    \/ SdkConnected
    \/ SdkConnectFailed
    \/ SdkDisconnected
    \/ VoiceClickStop

\* The steps the event loop is bound to take: a scheduled animation frame
\* runs and a send() in flight settles.
PoseProgress ==
    \/ PoseFrame
    \/ PoseSendResolved
    \/ PoseSendRejected
    \/ PoseStaleSendSettled
    \/ PoseStaleFrame

SpecPage == InitPage /\ [][NextPage]_vars /\ WF_vars(PoseProgress)

-----------------------------------------------------------------------------
(* Claims about the form heuristic                                           *)

HasJoints(lm) == \A j \in Joints : Present(lm, j)

hipWidthOf(lm) == Abs(lm.pt[LEFT_HIP].x - lm.pt[RIGHT_HIP].x)
kneeWidthOf(lm) == Abs(lm.pt[LEFT_KNEE].x - lm.pt[RIGHT_KNEE].x)
\* Twice the shoulder-center minus hip-center offset.
offset2Of(lm) ==
    (lm.pt[LEFT_SHOULDER].x + lm.pt[RIGHT_SHOULDER].x)
    - (lm.pt[LEFT_HIP].x + lm.pt[RIGHT_HIP].x)

\* C1: on every input that is undefined, empty, or a non-empty list lacking a
\* joint it reads, analyzeSquat returns (does not throw) the neutral result.
C1_NeverThrows ==
    (ret # "none" /\ ~HasJoints(landmarks))
        => (ret = "value" /\ analysis = NeutralAnalysis)

\* C2: whenever the joints are present the returned depth is a number d with
\* 0 <= d <= 100.
C2_DepthClamped ==
    (ret # "none" /\ HasJoints(landmarks))
        => /\ ret = "value"
           /\ ~analysis.depth.nan
           /\ 0 <= analysis.depth.num
           /\ analysis.depth.num <= 100 * analysis.depth.den

\* C3: kneeAlignment is knees-in exactly when the knee width is below 0.8 of
\* the hip width, knees-out exactly when it is above 1.3 of it, good otherwise;
\* a width ratio of exactly 0.8 or 1.3 is good.
C3_KneeBoundaries ==
    (ret = "value" /\ HasJoints(landmarks)) =>
        LET hw == hipWidthOf(landmarks)
            kw == kneeWidthOf(landmarks)
            k  == analysis.kneeAlignment
        IN  /\ k \in {"good", "knees-in", "knees-out"}
            /\ (k = "knees-in") <=> (10 * kw < 8 * hw)
            /\ (k = "knees-out") <=> (10 * kw > 13 * hw)
            /\ (10 * kw = 8 * hw \/ 10 * kw = 13 * hw) => k = "good"

\* A call on a pose whose knee width is exactly 0.8 of a non-zero hip width.
C3_Witness ==
    /\ ret = "value" /\ HasJoints(landmarks)
    /\ hipWidthOf(landmarks) > 0
    /\ 10 * kneeWidthOf(landmarks) = 8 * hipWidthOf(landmarks)
    /\ analysis.kneeAlignment = "good"

\* C4: backAlignment is forward-lean exactly when the shoulder center is more
\* than 0.05 left of the hip center, backward-lean exactly when it is more than
\* 0.05 right of it, good otherwise; an offset of exactly 0.05 either way is good.
C4_BackBoundaries ==
    (ret = "value" /\ HasJoints(landmarks)) =>
        LET o2 == offset2Of(landmarks)
            b  == analysis.backAlignment
        IN  /\ b \in {"good", "forward-lean", "backward-lean"}
            /\ (b = "forward-lean") <=> (o2 < -100)
            /\ (b = "backward-lean") <=> (o2 > 100)
            /\ (o2 = 100 \/ o2 = -100) => b = "good"

\* A call on a pose whose shoulder center is exactly 0.05 left of the hip center.
C4_Witness ==
    /\ ret = "value" /\ HasJoints(landmarks)
    /\ offset2Of(landmarks) = -100
    /\ analysis.backAlignment = "good"

\* C18: the feedback list is the knee message (iff the knee alignment is not
\* good), then the back message (iff the back alignment is not good), then
\* one depth message iff depth > 20: "Go deeper" below 60, "Great depth" above
\* 90, "Perfect squat depth" from 60 to 90 inclusive; nothing is reordered or
\* dropped, and isSquatting is true exactly when depth > 20.
C18_FeedbackOrder ==
    (ret = "value" /\ HasJoints(landmarks)) =>
        LET a == analysis
            d == a.depth
            over20 == ~d.nan /\ d.num > 20 * d.den
            kneeMsg == CASE a.kneeAlignment = "knees-in" ->
                               <<"Keep your knees tracking over your toes">>
                         [] a.kneeAlignment = "knees-out" ->
                               <<"Bring your knees slightly closer together">>
                         [] OTHER -> <<>>
            backMsg == CASE a.backAlignment = "forward-lean" ->
                               <<"Keep your chest up and back straight">>
                         [] a.backAlignment = "backward-lean" ->
                               <<"Lean slightly forward to maintain balance">>
                         [] OTHER -> <<>>
            depthMsg == IF ~over20 THEN <<>>
                        ELSE IF d.num < 60 * d.den
                        THEN <<"Go deeper - aim to get your hips below your knees">>
                        ELSE IF d.num > 90 * d.den
                        THEN <<"Great depth! Focus on control">>
                        ELSE <<"Perfect squat depth!">>
        IN  /\ a.feedback = kneeMsg \o backMsg \o depthMsg
            /\ a.isSquatting = over20

\* Knees in, leaning forward and a depth of exactly 60: three messages, the
\* last one "Perfect squat depth!".
C18_Witness ==
    /\ ret = "value" /\ HasJoints(landmarks)
    /\ analysis.kneeAlignment = "knees-in" /\ analysis.backAlignment = "forward-lean"
    /\ analysis.depth.num = 60 * analysis.depth.den
    /\ Len(analysis.feedback) = 3
    /\ analysis.feedback[3] = "Perfect squat depth!"

-----------------------------------------------------------------------------
(* Claims about the session coordinator                                      *)

\* C10: every duration a tick writes is floor((now - T0) / 1000), now being
\* the time of the tick and T0 the time the session was started or, after a
\* reset during the session, the time of the reset.
C10_DurationIsElapsed ==
    sess.lastOp = "tick"
        => sess.sessionStats.duration = (sess.tickAt - sess.t0) \div 1000

\* A late tick, off the whole second, of a session that was reset after its
\* start.
C10_Witness ==
    /\ sess.lastOp = "tick"
    /\ sess.sessionStats.duration >= 1
    /\ (sess.tickAt - sess.t0) % 1000 # 0
    /\ sess.wasReset
    /\ sess.tickAt - sess.t0 > tickPeriod

\* C19: whenever the session is active a start timestamp is recorded and the
\* interval timer is registered; right after a start, by the toggle or by the
\* quick-start button, the timestamp is the time of the start and every
\* counter is zero.
C19_StartRecordsTimestamp ==
    /\ isSessionActive => (sess.sessionStartTime # 0 /\ sess.timer # 0)
    /\ sess.lastOp \in {"start", "quickStart"} =>
          /\ sess.sessionStartTime = sess.t0
          /\ sess.sessionStats = ZeroStats

\* C20 as stated: while the session stays inactive the duration is not
\* written.
C20_DurationFrozen ==
    [][(~isSessionActive /\ ~isSessionActive')
          => sess'.sessionStats.duration = sess.sessionStats.duration]_vars

\* C20 as amended: while the session is inactive no interval is registered,
\* a registered interval closes over the current start timestamp, and every
\* tick that wrote the duration ran in an active session.
C20_NoTickAfterActive ==
    /\ ~isSessionActive => sess.timer = 0
    /\ sess.timer # 0 => sess.timer = sess.sessionStartTime
    /\ sess.lastOp = "tick" => isSessionActive

\* A session that ticked was ended, and a tick period or more has passed since
\* its last tick.
C20_Witness ==
    /\ ~isSessionActive /\ sess.lastOp = "end"
    /\ sess.sessionStats.duration >= 1
    /\ now - sess.tickAt >= tickPeriod

\* C21: squatsCompleted, goodFormReps, currentStreak and bestStreak are 0 in
\* every reachable state, and a step that changes duration to a non-zero
\* value is a timer tick.
C21_OnlyDurationMoves ==
    /\ [](/\ sess.sessionStats.squatsCompleted = 0
          /\ sess.sessionStats.goodFormReps = 0
          /\ sess.sessionStats.currentStreak = 0
          /\ sess.sessionStats.bestStreak = 0)
    /\ [][(/\ sess'.sessionStats.duration # sess.sessionStats.duration
           /\ sess'.sessionStats.duration # 0)
              => (sess'.lastOp = "tick" /\ sess'.tickAt = now)]_vars

\* A tick moved the duration from one non-zero value to another.
C21_Witness ==
    /\ sess.lastOp = "tick"
    /\ sess.sessionStats.duration >= 2
    /\ sess.sessionStats.squatsCompleted = 0

-----------------------------------------------------------------------------
(* Claims about the voice bridge                                             *)

\* C5: over a component lifetime at most one private-fallback attempt is
\* started, counting the one inside onDisconnect and the status watcher's;
\* and once a non-private attempt has dropped within the grace window exactly
\* one has been started.
C5_OneShotFallback ==
    /\ voice.fallbackStarts <= 1
    /\ voice.lastOp = "quickDisconnect" => voice.fallbackStarts = 1

\* The cases in which no fallback is due: private mode, no connect attempt
\* recorded, or the grace window over.
FallbackIneligible(v) ==
    v.usePrivate \/ v.connectAttemptAt = 0 \/ now - v.connectAttemptAt >= graceWindow

\* C22: a step that starts a fallback attempt ends in a state with private
\* mode off and a connect attempt less than 5000 ms old; a step in which the
\* bridge becomes disconnected in private mode, without a connect attempt or
\* 5000 ms or more after it leaves it disconnected, starts no fallback and
\* requests no signed URL.
C22_FallbackEligibility ==
    [][/\ voice'.fallbackStarts > voice.fallbackStarts
            => ~FallbackIneligible(voice')
       /\ (/\ voice.status # "disconnected" /\ voice'.status = "disconnected"
           /\ FallbackIneligible(voice'))
            => (/\ voice'.fallbackStarts = voice.fallbackStarts
                /\ voice'.urlRequests = voice.urlRequests)]_vars

\* C23: every fallback call awaiting its connect has a timeout running, and
\* the bridge does not become connected while a fallback whose timeout was
\* reported as a failure is still waiting for that connect.
C23_FallbackTimeout ==
    [][/\ \A t \in TaskIds :
            (/\ voice'.tasks[t].kind \in {"inline", "fallback"}
             /\ voice'.tasks[t].pc \in {"session", "race"})
                => voice'.tasks[t].deadline # 0
       /\ ~(/\ \E t \in TaskIds : voice.tasks[t].pc = "late"
            /\ voice.lastError
            /\ voice.status = "connecting"
            /\ voice'.status = "connected")]_vars

-----------------------------------------------------------------------------
(* Claims about the page: session, camera, pose loop and voice together      *)

\* The camera has no live track, no frame of the pose loop is scheduled or in
\* flight, and no voice session is open.
Released ==
    /\ cam.live = {}
    /\ pose.loop = "none" /\ ~pose.raf /\ ~pose.sending
    /\ ~pose.staleSend /\ ~pose.staleRaf
    /\ voice.status # "connected"

\* C9: once the workout session is stopped, the camera's tracks get stopped,
\* the pose frame loop gets stopped and an open voice session gets closed
\* (unless the user starts the session again first).
C9_StopReleasesAll ==
    (sess.lastOp = "end" /\ ~isSessionActive) ~> (Released \/ isSessionActive)

\* C27: the move a tool call returns, getCurrentMove as its value and
\* getPostureSnapshot after "Move:", is the exercise selected on the page, one
\* of the catalog ids.
C27_ToolsNameSelectedExercise ==
    /\ page.currentExercise \in EXERCISES
    /\ voice.lastOp \in {"getCurrentMove", "getPostureSnapshot"}
          => voice.toolRet.move = page.currentExercise

-----------------------------------------------------------------------------
(* Claims about the pose loop                                                *)

\* C24: while a send() of the running loop is in flight the next animation
\* frame is already scheduled, and a frame without a decoded video size sends
\* nothing and leaves the next frame scheduled.
C24_FireAndForget ==
    /\ (pose.loop = "running" /\ pose.sending) => pose.raf
    /\ pose.lastOp = "skip" => (pose.raf /\ ~pose.sending)

\* C25: once the component is mounted (the session is active with a video
\* stream) and the inference handle is initialised, the frame loop gets
\* started and, when the video has a decoded size, a send gets issued, unless
\* the component is unmounted first.
C25_LoopStarts ==
    (pose.mounted /\ pose.init = "ready")
        ~> (\/ ~pose.mounted
            \/ pose.loop # "none" /\ (pose.dims => pose.sending))

\* C26: after a send() of the running loop failed, the error is stored, the
\* loop is still running with its next frame scheduled and the video size
\* known (so that the frame sends again), the session is active and the
\* stream the loop reads is the page's stream, with its tracks live.
C26_SendFailureNonFatal ==
    pose.lastOp = "sendFailed" =>
        /\ pose.poseError
        /\ pose.mounted /\ pose.loop = "running" /\ pose.raf /\ pose.dims
        /\ isSessionActive
        /\ cam.videoStream # NoStream /\ cam.videoStream \in cam.live

\* A send failed in an active session.
C26_Witness ==
    /\ pose.lastOp = "sendFailed"
    /\ pose.poseError /\ pose.raf
    /\ isSessionActive

\* C29: a send() is issued only by a frame of the running loop of an active
\* session; a cleaned-up loop issues none, also when its send() in flight
\* settles after the cleanup and its body resumes: a send in flight turns
\* stale only through a cleanup, never by being issued.
C29_NoSendAfterCleanup ==
    [][/\ (pose'.sending /\ ~pose.sending)
            => (/\ pose.loop = "running" /\ pose.raf /\ pose.dims
                /\ pose'.loop = "running" /\ isSessionActive)
       /\ (pose'.staleSend /\ ~pose.staleSend)
            => (pose.sending /\ ~pose'.sending /\ pose'.lastOp = "cleanup")
       /\ (pose.staleRaf /\ ~pose'.staleRaf)
            => (pose'.staleSend = pose.staleSend /\ pose'.sending = pose.sending)]_vars

\* The loop was cleaned up with a send() in flight, the send settled, the
\* loop body resumed and its frame ran.
C29_Witness ==
    /\ pose.lastOp = "staleFrame"
    /\ ~pose.staleRaf /\ ~pose.staleSend /\ ~pose.sending

-----------------------------------------------------------------------------
(* Claims about the credential endpoint                                      *)

\* The request takes the signed-URL path, not the validation path.
EpSignedUrlPath == ~(ep.version = "validate" /\ ep.validate)

\* C11: a POST whose body has no agentId is answered 400 {error: "Missing
\* agentId"}, with or without the secret; a POST with an agentId and no
\* XI_API_KEY secret is answered 500 {error: "Missing XI_API_KEY secret"};
\* no provider call is made in either case.
C11_ErrorResponses ==
    (ep.phase = "done" /\ ep.method = "POST") =>
        /\ ep.body # "agentId" =>
              /\ ep.resp.status = 400 /\ ep.resp.error = "Missing agentId"
              /\ ep.calls = 0
        /\ (ep.body = "agentId" /\ ep.secret = "absent") =>
              /\ ep.resp.status = 500 /\ ep.resp.error = "Missing XI_API_KEY secret"
              /\ ep.calls = 0

\* C12: when the provider answers the signed-URL request with an OK status
\* and a JSON body of any shape, the response is 200 and its body has a
\* signed_url field holding a string.
C12_SignedUrlPresent ==
    (ep.phase = "done" /\ EpSignedUrlPath /\ ep.prov = "ok") =>
        /\ ep.resp.status = 200
        /\ ep.resp.signedUrl \in {"str", "empty"}

\* C13: no response holds the XI_API_KEY value, on any path; the key goes to
\* the provider only, in the request headers and not in the URL.
C13_SecretNotReturned ==
    /\ "secret" \notin ep.resp.origins
    /\ "secret" \notin ep.urlOrigins
    /\ ep.calls > 0 => ep.headerOrigins = {"secret"}

\* The provider was called with the key and fetch rejected: the response
\* carries the text of the exception.
C13_Witness ==
    /\ ep.phase = "done" /\ ep.calls = 1 /\ ep.prov = "throws"
    /\ ep.resp.details = "exception"
    /\ "agentId" \in ep.resp.origins

\* C14: every request other than a preflight gets a JSON response, and a
\* provider answer that is not OK is returned as a payload carrying the
\* provider's status and its detail text.
C14_TotalAndPassThrough ==
    (ep.phase = "done" /\ ep.method # "OPTIONS") =>
        /\ ep.resp.json
        /\ ep.prov = "error" =>
              /\ ep.resp.provStatus = ep.provStatus
              /\ ep.resp.details = "provider"

\* C15: an OPTIONS request is answered with status 200, the CORS headers and
\* an empty body; the request body and the secret are not read and the
\* provider is not called.
C15_Preflight ==
    (ep.phase = "done" /\ ep.method = "OPTIONS") =>
        /\ ep.resp.status = 200 /\ ep.resp.cors
        /\ ep.resp.kind = "empty"
        /\ ~ep.readBody /\ ~ep.readSecret /\ ep.calls = 0

-----------------------------------------------------------------------------
(* Claims about the voice tools and the data they read                       *)

C17_AnalysisReachesPage ==
    pose.lastFrame.set => page.squatAnalysis = pose.lastFrame

-----------------------------------------------------------------------------
(* Claims about the private-mode start                                       *)

\* C28: a validate:true request whose provider lookup is not OK is answered
\* 200 {valid: false, status: the provider's status, message} after that one
\* provider call, with no signed URL; the startCoaching that receives
\* valid: false ends there: no signed-URL request, no session begun, the
\* status unchanged.
C28_ValidationGate ==
    /\ []((/\ ep.phase \in {"done", "sent"}
           /\ ep.version = "validate" /\ ep.validate /\ ep.prov = "error")
            => (/\ ep.resp.status = 200 /\ ep.resp.json
                /\ ep.resp.kind = "validation:false"
                /\ ep.resp.provStatus = ep.provStatus
                /\ ep.provStatus \in EpProviderErrors
                /\ ep.resp.signedUrl = "absent"
                /\ ep.calls = 1))
    /\ [][(/\ ep.phase = "done" /\ ep'.phase = "sent"
           /\ ep.resp.kind = "validation:false")
            => (/\ voice'.lastOp = "invalid"
                /\ voice'.status = voice.status
                /\ voice'.urlRequests = voice.urlRequests
                /\ voice'.fallbackStarts = voice.fallbackStarts
                /\ \A t \in TaskIds :
                      voice'.tasks[t] \in {voice.tasks[t], FreeTask}
                /\ \E t \in TaskIds :
                      /\ voice.tasks[t].pc = "validate"
                      /\ voice'.tasks[t] = FreeTask)]_vars

\* A start in private mode was ended by the endpoint's valid: false.
C28_Witness ==
    /\ ep.phase = "sent" /\ ep.resp.kind = "validation:false"
    /\ ep.provStatus = 404
    /\ voice.lastOp = "invalid"
    /\ voice.status = "disconnected"
    /\ \A t \in TaskIds : voice.tasks[t] = FreeTask

\* C30: a startCoaching stopped by a denied microphone begins no session,
\* requests no credential, starts no fallback and records no connect
\* attempt; connectAttemptAt is written only when the microphone was
\* granted, and a fallback starts only with a connect attempt recorded, so
\* none starts on account of a denied start.  (The agent id is the
\* hard-coded one and is never empty.)
C30_StartGuards ==
    [][/\ (voice'.lastOp = "micDenied" /\ voice' # voice)
            => (/\ voice'.status = voice.status
                /\ voice'.connectAttemptAt = voice.connectAttemptAt
                /\ voice'.fallbackTried = voice.fallbackTried
                /\ voice'.fallbackStarts = voice.fallbackStarts
                /\ voice'.urlRequests = voice.urlRequests
                /\ \A t \in TaskIds :
                      voice'.tasks[t] \in {voice.tasks[t], FreeTask})
       /\ voice'.connectAttemptAt # voice.connectAttemptAt
            => (voice'.lastOp = "micGranted" /\ voice'.connectAttemptAt = now)
       /\ voice'.fallbackStarts > voice.fallbackStarts
            => voice'.connectAttemptAt # 0]_vars

\* The only start so far was denied the microphone, and time has passed with
\* the status disconnected.
C30_Witness ==
    /\ voice.lastOp = "micDenied"
    /\ voice.status = "disconnected"
    /\ voice.connectAttemptAt = 0 /\ voice.fallbackStarts = 0
    /\ \A t \in TaskIds : voice.tasks[t] = FreeTask
    /\ now >= 1000 + graceWindow

====
